---- MODULE Spec2Model ----
(***************************************************************************)
(* Secure Local Vault + Emergency Activation Protocol of the habeas mobile *)
(* app: the EmergencySlider gesture machine, the HomeScreen host, the      *)
(* EmergencyHandler orchestrator and the SecureStorage vault it writes to. *)
(*                                                                         *)
(* Execution is single-threaded and event-driven: one action is one event  *)
(* handler, one animation frame or one completion of an awaited storage or *)
(* keystore call, together with the React render and effects it causes.    *)
(***************************************************************************)
EXTENDS Integers, Sequences, FiniteSets, TLC

(* ---------------------------------------------------------------------- *)
(* Constants of the program                                                *)
(* ---------------------------------------------------------------------- *)
THUMB_SIZE == 60
SliderPadding == 60
CountdownDuration == 3000
ResetDuration == 200
CountdownTarget == 100

(* ---------------------------------------------------------------------- *)
(* Bounds of the model                                                     *)
(* ---------------------------------------------------------------------- *)
\* width of the device window (Dimensions.get('window').width)
WindowWidth == 130
\* milliseconds of wall-clock time between two animation frames
FrameMs == 1000
\* animations that may run on the countdown value at the same time
MaxAnims == 3
\* EmergencyHandler calls the host may have in flight at the same time
MaxCalls == 2
\* keys the key provider may generate in one run
MaxKeys == 2
\* user inputs in one run: presses, screen changes and kills happen among the
\* first MaxEvents inputs, touch events of the slider among the first
\* MaxGestureEvents
MaxEvents == 5
MaxGestureEvents == 7
\* storage and keystore calls that may fail in one run
MaxFaults == 1
\* readings of the wall clock (Date.now(), in ms) in one run
MaxClock == 2
\* emergency contacts one record may hold
MaxContacts == 2

SLIDER_WIDTH == WindowWidth - SliderPadding
MaxX == SLIDER_WIDTH - THUMB_SIZE
\* horizontal displacements a move event may report
DxInputs == {0 - 2, MaxX - 1, MaxX, MaxX + 2}

Null == [null |-> TRUE]
\* a rejected promise travelling up to the next catch
Thrown == [thrown |-> TRUE]
EMERGENCY_STATE_KEY == "@emergency_state"
PERSONAL_INFO_KEY == "@personal_info"
VaultKeys == {EMERGENCY_STATE_KEY, PERSONAL_INFO_KEY}

Min(a, b) == IF a < b THEN a ELSE b
Max(a, b) == IF a > b THEN a ELSE b
RemoveAt(seq, i) == SubSeq(seq, 1, i - 1) \o SubSeq(seq, i + 1, Len(seq))

VARIABLES
  isUnlocked,       \* EmergencySlider state: armed
  isActivating,     \* EmergencySlider state: countdown believed running
  translateX,       \* thumb offset
  countdown,        \* value of the countdown Animated.Value (0..100)
  anims,            \* animations running on countdown, in start order
  tracked,          \* place in anims of countdown._animation, 0 when null
  touching,         \* a gesture holds the responder (finger down)
  emergencyActive,  \* HomeScreen state, passed to the slider as disabled
  calls,            \* EmergencyHandler calls in flight, by slot
  storage,          \* AsyncStorage: vault key -> blob or Null
  keystore,         \* RNSecureKeyStore entry of ENCRYPTION_KEY_ID, 0 = none
  keysMade,         \* keys generated so far
  events,           \* user inputs so far
  personalInfo,     \* PersonalInfoScreen state, Null while it is not mounted
  newContact,       \* PersonalInfoScreen's new-contact form, Null likewise
  network,          \* requests handed to the api client, in order
  faults,           \* storage and keystore calls that have failed so far
  hist              \* observations about the current gesture and countdowns

vars == <<isUnlocked, isActivating, translateX, countdown, anims, tracked,
          touching, emergencyActive, calls, storage, keystore, keysMade,
          events, personalInfo, newContact, network, faults, hist>>

(* ---------------------------------------------------------------------- *)
(* EmergencySlider: the Animated countdown value                           *)
(*                                                                         *)
(* The slider's mutable state is handled as one record S while a handler   *)
(* runs: unl/act are isUnlocked/isActivating as the queued setState calls  *)
(* leave them, x is translateX, val the countdown value, anims/tracked the *)
(* animations on it.  cut records that the handler stopped a countdown     *)
(* animation before it finished, fired how often the listener armed.       *)
(* ---------------------------------------------------------------------- *)
SliderState ==
  [unl |-> isUnlocked, act |-> isActivating, x |-> translateX,
   val |-> countdown, anims |-> anims, tracked |-> tracked,
   cut |-> FALSE, fired |-> 0, firedOld |-> FALSE]

\* Animated.timing(countdown, {toValue, duration}) starting from the current
\* value; AnimatedValue.animate makes it the value's current animation.
AddAnim(S, kind, to, dur) ==
  [S EXCEPT !.anims = Append(@, [kind |-> kind, from |-> S.val, to |-> to,
                                 dur |-> dur, elapsed |-> 0, old |-> FALSE]),
            !.tracked = Len(S.anims) + 1]

\* The completion callback of startEmergencyCountdown's animation, called
\* with finished = false: resetCountdown().  The value has no current
\* animation at that point, so resetCountdown's animation stops nothing.
\* (variant: the callback does not look at finished and resets nothing)
OnCountdownInterruptedIgnored(S) == [S EXCEPT !.cut = TRUE]

OnCountdownInterrupted(S) ==
  AddAnim([S EXCEPT !.act = FALSE, !.cut = TRUE], "reset", 0, ResetDuration)

\* AnimatedValue.animate stops the value's current animation first; a stopped
\* animation reports {finished: false} to its callback.
StopTracked(S) ==
  IF S.tracked = 0 THEN S
  ELSE LET a == S.anims[S.tracked]
           S1 == [S EXCEPT !.anims = RemoveAt(@, S.tracked), !.tracked = 0]
       IN IF a.kind = "count" THEN OnCountdownInterrupted(S1) ELSE S1

Animate(S, kind, to, dur) == AddAnim(StopTracked(S), kind, to, dur)

resetCountdown(S) ==
  Animate([S EXCEPT !.act = FALSE], "reset", 0, ResetDuration)

startEmergencyCountdown(S) ==
  Animate([S EXCEPT !.act = TRUE], "count", CountdownTarget, CountdownDuration)

resetSlider(S) ==
  Animate([S EXCEPT !.unl = FALSE, !.act = FALSE, !.x = 0], "reset", 0, ResetDuration)

(* ---------------------------------------------------------------------- *)
(* EmergencySlider: the pan responder                                      *)
(*                                                                         *)
(* useRef keeps the PanResponder built by the first render, so its         *)
(* handlers read disabled, isUnlocked and isActivating of the first render *)
(* (false, false, false), whatever the current state is.                   *)
(* ---------------------------------------------------------------------- *)
panDisabled == FALSE
panIsUnlocked == FALSE
panIsActivating == FALSE

onStartShouldSetPanResponder == ~panDisabled /\ ~panIsUnlocked

OverThreshold(newX) == newX * 10 > MaxX * 9

onPanResponderMove(S, dx) ==
  LET newX == Max(0, Min(dx, MaxX))
      S1 == [S EXCEPT !.x = newX]
  IN IF OverThreshold(newX)
       THEN IF ~panIsActivating THEN startEmergencyCountdown(S1) ELSE S1
       ELSE IF panIsActivating THEN resetCountdown(S1) ELSE S1

onPanResponderRelease(S) ==
  IF ~panIsActivating THEN resetSlider(S) ELSE S

(* ---------------------------------------------------------------------- *)
(* EmergencySlider: one animation frame                                    *)
(*                                                                         *)
(* Every running animation advances by the time since the last frame, sets *)
(* the value and so calls the value's listener; an animation that reaches  *)
(* its duration sets toValue, ends with {finished: true} and clears the    *)
(* value's current animation.  The listener is the one the last committed  *)
(* render subscribed: it reads that render's isActivating (lisAct).        *)
(* ---------------------------------------------------------------------- *)
\* The easing curve is monotone: once the duration has passed the value is
\* toValue, before that it lies strictly between fromValue and toValue.
\* Partial stands for every value strictly between 0 and CountdownTarget.
Partial == CountdownTarget \div 2

AnimValue(a, e) ==
  IF e >= a.dur THEN a.to
  ELSE IF a.from = a.to THEN a.from
  ELSE Partial

countdownListener(S, value, lisAct, old) ==
  IF value >= CountdownTarget /\ lisAct
    THEN [S EXCEPT !.act = FALSE, !.unl = TRUE, !.fired = @ + 1,
                   !.firedOld = @ \/ old]
    ELSE S

\* j is the place in S.anims of the next animation to advance
RECURSIVE RunFrame(_, _, _)
RunFrame(S, j, lisAct) ==
  IF j > Len(S.anims) THEN S
  ELSE LET a == S.anims[j]
           e == Min(a.elapsed + FrameMs, a.dur)
           v == AnimValue(a, e)
           S1 == countdownListener([S EXCEPT !.val = v], v, lisAct, a.old)
       IN IF e >= a.dur
            THEN RunFrame([S1 EXCEPT !.anims = RemoveAt(@, j), !.tracked = 0], j, lisAct)
            ELSE RunFrame([S1 EXCEPT !.anims[j].elapsed = e], j + 1, lisAct)

(* ---------------------------------------------------------------------- *)
(* SecureStorage: the vault                                                *)
(* ---------------------------------------------------------------------- *)
\* a field of type string | null: <<>> is null, <<s>> the string s
NoString == <<>>

DefaultState ==
  [activated |-> FALSE, activatedAt |-> NoString, emergencyType |-> NoString,
   sentNotifications |-> FALSE]

\* newState of activateEmergency(emergencyType = 'general')
ActivatedState ==
  [activated |-> TRUE, activatedAt |-> <<"now">>, emergencyType |-> <<"general">>,
   sentNotifications |-> FALSE]

\* PersonalInfoScreen's initial state and a record as the screen stores it
\* (of the identity fields the model keeps firstName, which the save effect's
\* condition reads, and nationality, which it does not)
EmptyInfo == [firstName |-> "", nationality |-> "", emergencyContacts |-> <<>>]

SampleInfo ==
  [firstName |-> "Jane", nationality |-> "",
   emergencyContacts |-> <<[id |-> "9", name |-> "Sam", phone |-> "555"]>>]

\* the new-contact form as the screen mounts it (relationship is left out)
EmptyContact == [name |-> "", phone |-> ""]

\* JSON.stringify writes a string between double quotes and escapes a double
\* quote inside it with a backslash; JSON.parse undoes that, and a literal
\* with a bare double quote inside is a SyntaxError.  RawQuote stands for the
\* strings that hold a double quote.
RawQuote == "Jo\""
EscapedQuote == "Jo\\\""

Quote(str) == IF str = RawQuote THEN EscapedQuote ELSE str
Unquote(lit) == IF lit = EscapedQuote THEN RawQuote ELSE lit
WellFormed(lit) == lit # RawQuote

\* the string literals of the JSON text of a value, by the shape of the value
Literals(v) ==
  IF "firstName" \in DOMAIN v
    THEN <<v.firstName, v.nationality>> \o
         [n \in 1..(3 * Len(v.emergencyContacts)) |->
            CASE n % 3 = 1 -> v.emergencyContacts[(n + 2) \div 3].id
              [] n % 3 = 2 -> v.emergencyContacts[(n + 1) \div 3].name
              [] OTHER -> v.emergencyContacts[n \div 3].phone]
    ELSE v.activatedAt \o v.emergencyType

\* the value with every string written as its literal (escape) or read
\* back from its literal
MapStrings(v, escape) ==
  LET F(str) == IF escape THEN Quote(str) ELSE Unquote(str)
  IN IF "firstName" \in DOMAIN v
       THEN [firstName |-> F(v.firstName),
             nationality |-> F(v.nationality),
             emergencyContacts |->
               [n \in 1..Len(v.emergencyContacts) |->
                  [id |-> F(v.emergencyContacts[n].id),
                   name |-> F(v.emergencyContacts[n].name),
                   phone |-> F(v.emergencyContacts[n].phone)]]]
       ELSE [v EXCEPT !.activatedAt = [n \in 1..Len(@) |-> F(@[n])],
                      !.emergencyType = [n \in 1..Len(@) |-> F(@[n])]]

\* JSON.stringify(data): the text, held as the value with every string
\* replaced by its literal
Stringify(v) == <<"json", MapStrings(v, TRUE)>>

\* JSON.parse(jsonValue): throws on text that is no JSON
Parse(text) ==
  IF text[1] = "json" /\ \A n \in 1..Len(Literals(text[2])) : WellFormed(Literals(text[2])[n])
    THEN MapStrings(text[2], FALSE)
    ELSE Thrown

\* CryptoJS.AES.encrypt(data, key) / decrypt(encryptedData, key): under another
\* key the bytes are no UTF-8 JSON text.  A blob whose k is 0 was not made by
\* encrypt: bytes written to the storage directly.
Encrypt(text, key) == [k |-> key, text |-> text]
\* (variant: decrypt gives the text back under any key)
DecryptIgnoresKey(blob, key) == blob.text

Decrypt(blob, key) == IF blob.k = key THEN blob.text ELSE <<"garbage">>

\* (variant: loadData's catch block throws the error on)
loadDataCatchRethrows == Thrown

\* loadData's catch block: the error is logged and null returned
loadDataCatch == Null

\* what loadData's decrypt + JSON.parse + catch make of a blob
Decode(blob, key) ==
  LET v == Parse(Decrypt(blob, key))
  IN IF v = Thrown THEN loadDataCatch ELSE v

\* (variant: a value that did not load counts as an active emergency)
StateOrActive(v) == IF v = Null THEN ActivatedState ELSE v

\* the state EmergencyHandler.getEmergencyState makes of a loaded value
StateOr(v) == IF v = Null THEN DefaultState ELSE v

\* getEmergencyState's catch block
getEmergencyStateCatch == DefaultState

\* the record held on disk under '@emergency_state' (Null when none), as the
\* key it was encrypted with decodes it
PersistedState ==
  IF storage[EMERGENCY_STATE_KEY] = Null THEN Null
  ELSE Decode(storage[EMERGENCY_STATE_KEY], storage[EMERGENCY_STATE_KEY].k)

IsActivated(st) == st \notin {Null, Thrown} /\ st.activated

(* ---------------------------------------------------------------------- *)
(* HomeScreen                                                              *)
(* ---------------------------------------------------------------------- *)
\* setEmergencyActive(b) and the render it causes: the slider's effect on
\* [disabled] runs resetSlider when disabled has become true.  When that
\* happens while the slider is arming, the animations that survive the reset
\* are marked: they were running when the slider was disabled.
MarkOld(S) ==
  [S EXCEPT !.anims = [i \in 1..Len(@) |-> [@[i] EXCEPT !.old = TRUE]]]

DisabledEffect(S, b) ==
  IF b /\ ~emergencyActive
    THEN IF S.act THEN MarkOld(resetSlider(S)) ELSE resetSlider(S)
    ELSE S

\* a call of EmergencyHandler or of the information screen that has reached
\* its first await; pi is the PersonalInformation it holds
\* (overtaken is an observation: a call that writes what this one reads or
\* writes has returned since this one started)
NewCall(kind) ==
  [kind |-> kind,
   pc |-> IF kind = "deactivate" THEN "save_key" ELSE "load_get",
   blob |-> Null, key |-> 0, pi |-> Null, overtaken |-> FALSE]

\* PersonalInfoScreen's save effect: saveData(STORAGE_KEY, personalInfo)
NewSave(info) ==
  [kind |-> "save", pc |-> "save_key", blob |-> Null, key |-> 0, pi |-> info,
   overtaken |-> FALSE]

\* the requests the save effect hands to the api client: it calls nothing
\* but SecureStorage.saveData
\* (variant: the save effect also posts the record)
saveEffectRequestsPosted(info) == <<[by |-> "save", payload |-> info]>>

saveEffectRequests(info) == <<>>

\* the requests activateEmergency hands to the api client once it has
\* loaded PersonalInformation: it goes on to newState and saveData
Submission(info) == <<>>

\* (variant: the save effect's condition reads every field)
ShouldSaveAnyField(info) ==
  info.firstName # "" \/ info.nationality # "" \/ Len(info.emergencyContacts) > 0

\* the save effect's condition
ShouldSave(info) == info.firstName # "" \/ Len(info.emergencyContacts) > 0

\* the vault key a call loads from and the one it saves to
LoadKeyOf(kind) == IF kind = "check" THEN EMERGENCY_STATE_KEY ELSE PERSONAL_INFO_KEY
\* (variant: every saveData call writes under '@personal_info')
SaveKeyOfInfo(kind) == PERSONAL_INFO_KEY

SaveKeyOf(kind) == IF kind = "save" THEN PERSONAL_INFO_KEY ELSE EMERGENCY_STATE_KEY

RECURSIVE Repeat(_, _)
Repeat(x, n) == IF n = 0 THEN <<>> ELSE <<x>> \o Repeat(x, n - 1)

\* commit the slider record a handler has produced
Commit(S) ==
  /\ Len(S.anims) <= MaxAnims
  /\ isUnlocked' = S.unl
  /\ isActivating' = S.act
  /\ translateX' = S.x
  /\ countdown' = S.val
  /\ anims' = S.anims
  /\ tracked' = S.tracked

SliderVars == <<isUnlocked, isActivating, translateX, countdown, anims, tracked>>
VaultVars == <<storage, keystore, keysMade>>
\* the information screen, the api client and the failures of the platform
OtherVars == <<personalInfo, newContact, network, faults>>

(* ---------------------------------------------------------------------- *)
(* Observations (history): they record what happened, nothing reads them   *)
(* ---------------------------------------------------------------------- *)
\* held:      ms the thumb has stayed over the threshold, finger down, since
\*            it last crossed it (capped at CountdownDuration); -1 when it is not
\* gArms:     armed transitions during the current gesture (capped at 2)
\* gDisabled: the disabled effect reset the slider during the current gesture
\* retracted: the gesture crossed the threshold and was pulled back below it
\*            before CountdownDuration had passed and before arming
\* earlyArm:  an armed transition happened with held < CountdownDuration
\* cut:       the last step stopped a countdown animation before it finished
\* oldArm:    an animation that was running when the slider was disabled
\*            while arming has produced an armed transition
\* loaded:    what the loadData call that ended in the last step gave its
\*            caller, Nothing when none ended
\* ret:       what the getEmergencyState call that ended in the last step
\*            gave its caller, Nothing when none ended
\* blob, key: the blob that loadData call read (Null when it read none) and
\*            the key it decrypted with (0 when it got none)
\* saved:     the PersonalInformation value of the last saveData call that
\*            completed (Null when none has)
\* savedKs:   the keystore entry when that call completed
\* killed:    the process has been killed and started again
\* cycled:    a deactivation has completed in this run with no finger down:
\*            emergency mode was on and has been switched off
\* dropped:   a gesture was released or terminated while arming (isActivating,
\*            not isUnlocked); since then no armed transition has happened and
\*            no thumb that had crossed the threshold was pulled back below it
Nothing == [nothing |-> TRUE]

HistInit ==
  [held |-> 0 - 1, gArms |-> 0, gDisabled |-> FALSE, retracted |-> FALSE,
   earlyArm |-> FALSE, cut |-> FALSE, oldArm |-> FALSE,
   loaded |-> Nothing, ret |-> Nothing, blob |-> Null, key |-> 0,
   saved |-> Null, savedKs |-> 0, killed |-> FALSE, dropped |-> FALSE,
   cycled |-> FALSE]

Step(h, S) ==
  [h EXCEPT !.cut = S.cut, !.loaded = Nothing, !.ret = Nothing,
            !.blob = Null, !.key = 0]

\* a loadData call that read blob and decrypted with key has ended with v
Observed(h, v, blob, key) == [h EXCEPT !.loaded = v, !.blob = blob, !.key = key]

\* after a step in which HomeScreen has set emergencyActive to b
HistAfter(S, b) ==
  [Step(hist, S) EXCEPT !.gDisabled = @ \/ (touching /\ b /\ ~emergencyActive)]

(* ---------------------------------------------------------------------- *)
(* Initial states: the app has just started, HomeScreen has mounted and    *)
(* its effect has called checkEmergencyStatus                              *)
(* ---------------------------------------------------------------------- *)
\* a key the keystore held once and holds no more
LostKey == MaxKeys + 1

\* a fresh install; an install in use, emergency mode off or on; an install
\* whose keystore entry is lost while its blobs are still in the storage
Installs ==
  {[keystore |-> 0, es |-> Null, pi |-> Null],
   [keystore |-> 1, es |-> Encrypt(Stringify(DefaultState), 1),
    pi |-> Encrypt(Stringify(SampleInfo), 1)],
   [keystore |-> 1, es |-> Encrypt(Stringify(ActivatedState), 1),
    pi |-> Encrypt(Stringify(SampleInfo), 1)],
   [keystore |-> 0, es |-> Encrypt(Stringify(DefaultState), LostKey),
    pi |-> Encrypt(Stringify(SampleInfo), LostKey)]}

Init ==
  /\ isUnlocked = FALSE
  /\ isActivating = FALSE
  /\ translateX = 0
  /\ countdown = 0
  /\ anims = <<>>
  /\ tracked = 0
  /\ touching = FALSE
  /\ emergencyActive = FALSE
  /\ calls = <<NewCall("check")>>
  /\ \E inst \in Installs :
       /\ keystore = inst.keystore
       /\ keysMade = inst.keystore
       /\ storage = [k \in VaultKeys |->
                       IF k = EMERGENCY_STATE_KEY THEN inst.es ELSE inst.pi]
  /\ events = 0
  /\ personalInfo = Null
  /\ newContact = Null
  /\ network = <<>>
  /\ faults = 0
  /\ hist = HistInit

(* ---------------------------------------------------------------------- *)
(* Gesture events                                                          *)
(* ---------------------------------------------------------------------- *)
UserInput ==
  /\ events < MaxEvents
  /\ events' = events + 1

\* a touch event of the slider (they are counted with the other inputs)
GestureInput ==
  /\ events < MaxGestureEvents
  /\ events' = events + 1

\* onStartShouldSetPanResponder / onMoveShouldSetPanResponder, onPanResponderGrant
Grant ==
  /\ GestureInput
  /\ ~touching
  /\ onStartShouldSetPanResponder
  /\ touching' = TRUE
  /\ hist' = [Step(hist, SliderState) EXCEPT !.held = 0 - 1, !.gArms = 0,
                !.gDisabled = FALSE, !.retracted = FALSE]
  /\ UNCHANGED <<SliderVars, emergencyActive, calls, VaultVars, OtherVars>>

Move(dx) ==
  /\ GestureInput
  /\ touching
  /\ LET S == onPanResponderMove(SliderState, dx)
         over == OverThreshold(S.x)
     IN /\ Commit(S)
        /\ hist' = [Step(hist, S) EXCEPT
                      !.held = IF over THEN Max(hist.held, 0) ELSE 0 - 1,
                      !.retracted = ~over /\ (hist.retracted \/
                                       (hist.held >= 0 /\ hist.held < CountdownDuration
                                        /\ hist.gArms = 0)),
                      !.dropped = @ /\ (over \/ hist.held < 0)]
  /\ UNCHANGED <<touching, emergencyActive, calls, VaultVars, OtherVars>>

GestureEnd ==
  /\ GestureInput
  /\ touching
  /\ touching' = FALSE
  /\ LET S == onPanResponderRelease(SliderState)
     IN /\ Commit(S)
        /\ hist' = [Step(hist, S) EXCEPT !.held = 0 - 1, !.retracted = FALSE,
                                        !.dropped = @ \/ (isActivating /\ ~isUnlocked)]
  /\ UNCHANGED <<emergencyActive, calls, VaultVars, OtherVars>>

\* onPanResponderRelease: the finger is lifted
Release == GestureEnd

\* onPanResponderTerminate: the platform takes the gesture away
Terminate == GestureEnd

(* ---------------------------------------------------------------------- *)
(* Time: FrameMs pass and the animation frame callbacks run; each armed    *)
(* transition calls onEmergencyActivated = HomeScreen.handleEmergency-     *)
(* Activated, which starts EmergencyHandler.activateEmergency              *)
(* ---------------------------------------------------------------------- *)
Frame ==
  /\ UNCHANGED events
  /\ anims # <<>> \/ (touching /\ hist.held >= 0 /\ hist.held < CountdownDuration)
  /\ LET S == RunFrame(SliderState, 1, isActivating)
         held == IF touching /\ hist.held >= 0
                   THEN Min(hist.held + FrameMs, CountdownDuration) ELSE hist.held
     IN /\ Len(calls) + S.fired <= MaxCalls
        /\ Commit(S)
        /\ calls' = calls \o Repeat(NewCall("activate"), S.fired)
        /\ hist' = [Step(hist, S) EXCEPT
                      !.held = held,
                      !.gArms = Min(2, @ + S.fired),
                      !.earlyArm = @ \/ (S.fired > 0 /\ held >= 0
                                          /\ held < CountdownDuration),
                      !.oldArm = @ \/ S.firedOld,
                      !.dropped = @ /\ S.fired = 0]
  /\ UNCHANGED <<touching, emergencyActive, VaultVars, OtherVars>>

(* ---------------------------------------------------------------------- *)
(* EmergencyHandler calls: one action per awaited storage or keystore call *)
(* that completes, run up to the next await                                *)
(* ---------------------------------------------------------------------- *)
\* HomeScreen.handleDeactivateEmergency: the Deactivate control is rendered
\* while emergencyActive; a press needs the responder the gesture holds, and
\* HomeScreen on top of the navigation stack.
\* deactivateEmergency runs up to saveData's await of the keystore read.
DeactivatePress ==
  /\ UserInput
  /\ emergencyActive
  /\ ~touching
  /\ personalInfo = Null
  /\ Len(calls) < MaxCalls
  /\ calls' = Append(calls, NewCall("deactivate"))
  /\ hist' = Step(hist, SliderState)
  /\ UNCHANGED <<SliderVars, touching, emergencyActive, VaultVars, OtherVars>>

\* the call kinds that a returning call of the given kind overtakes
Overtakes(kind) ==
  CASE kind = "deactivate" -> {"activate"}
    [] kind = "save" -> {"load"}
    [] OTHER -> {}

\* the calls left when call i has returned; a deactivation that returns has
\* overtaken the activations still in flight, a save the loads of the
\* information screen still in flight
Remaining(i) ==
  LET rest == RemoveAt(calls, i)
  IN [j \in 1..Len(rest) |->
        IF rest[j].kind \in Overtakes(calls[i].kind)
          THEN [rest[j] EXCEPT !.overtaken = TRUE] ELSE rest[j]]

\* A call of activateEmergency or deactivateEmergency returns to its handler
\* in HomeScreen, which sets emergencyActive (true after activateEmergency,
\* false after deactivateEmergency); a save of the information screen returns
\* to the save effect.  h is hist with what the call observed.
Returned(i, h) ==
  /\ calls' = Remaining(i)
  /\ IF calls[i].kind = "save"
       THEN /\ hist' = h
            /\ UNCHANGED <<SliderVars, emergencyActive>>
       ELSE LET b == (calls[i].kind = "activate")
                S == DisabledEffect(SliderState, b)
            IN /\ emergencyActive' = b
               /\ Commit(S)
               /\ hist' = [h EXCEPT !.cut = S.cut,
                             !.gDisabled = @ \/ (touching /\ b /\ ~emergencyActive)]

\* checkEmergencyStatus: getEmergencyState has the value v of loadData (its
\* catch block takes over when loadData throws); setEmergencyActive(state.activated)
LoadedCheck(i, v, key) ==
  LET state == IF v = Thrown THEN getEmergencyStateCatch ELSE StateOr(v)
      b == state.activated
      S == DisabledEffect(SliderState, b)
  IN /\ emergencyActive' = b
     /\ Commit(S)
     /\ calls' = RemoveAt(calls, i)
     /\ hist' = [Observed(HistAfter(S, b), v, calls[i].blob, key) EXCEPT !.ret = state]
     /\ UNCHANGED <<personalInfo, network>>

\* (variant: activateEmergency returns before saveData when no
\* PersonalInformation was loaded)
LoadedActivateReturnsEarly(i, v, key) ==
  /\ UNCHANGED personalInfo
  /\ IF v = Thrown \/ v = Null
       THEN /\ Returned(i, Observed(Step(hist, SliderState), v, calls[i].blob, key))
            /\ UNCHANGED network
       ELSE /\ calls' = [calls EXCEPT ![i].pi = v, ![i].pc = "save_key"]
            /\ network' = network \o Submission(v)
            /\ hist' = Observed(Step(hist, SliderState), v, calls[i].blob, key)
            /\ UNCHANGED <<SliderVars, emergencyActive>>

\* activateEmergency has the value v of loadData: it builds newState and
\* calls saveData, which awaits the keystore read of getEncryptionKey.  When
\* loadData throws, the catch block logs and activateEmergency returns.
LoadedActivate(i, v, key) ==
  /\ UNCHANGED personalInfo
  /\ IF v = Thrown
       THEN /\ Returned(i, Observed(Step(hist, SliderState), v, calls[i].blob, key))
            /\ UNCHANGED network
       ELSE /\ calls' = [calls EXCEPT ![i].pi = v, ![i].pc = "save_key"]
            /\ network' = network \o Submission(v)
            /\ hist' = Observed(Step(hist, SliderState), v, calls[i].blob, key)
            /\ UNCHANGED <<SliderVars, emergencyActive>>

\* loadPersonalInfo has the value v of loadData: if (data) setPersonalInfo(data),
\* and the save effect runs for the new record.  Nothing is set once the
\* screen has been left.
LoadedInfo(i, v, key) ==
  LET set == v \notin {Null, Thrown} /\ personalInfo # Null
      rest == RemoveAt(calls, i)
  IN /\ personalInfo' = IF set THEN v ELSE personalInfo
     /\ calls' = IF set /\ ShouldSave(v) THEN Append(rest, NewSave(v)) ELSE rest
     /\ network' = IF set /\ ShouldSave(v) THEN network \o saveEffectRequests(v)
                   ELSE network
     /\ hist' = Observed(Step(hist, SliderState), v, calls[i].blob, key)
     /\ UNCHANGED <<SliderVars, emergencyActive>>

\* loadData ends with the value v (null when nothing is stored or it does not
\* decode), having decrypted with key, and its caller goes on
Loaded(i, v, key) ==
  CASE calls[i].kind = "check" -> LoadedCheck(i, v, key)
    [] calls[i].kind = "activate" -> LoadedActivate(i, v, key)
    [] OTHER -> LoadedInfo(i, v, key)

\* loadData: AsyncStorage.getItem(key) completes
LoadGet(i) ==
  /\ UNCHANGED events
  /\ calls[i].pc = "load_get"
  /\ LET blob == storage[LoadKeyOf(calls[i].kind)]
     IN IF blob = Null
          THEN Loaded(i, Null, 0)
          ELSE /\ calls' = [calls EXCEPT ![i].blob = blob, ![i].pc = "load_key"]
               /\ hist' = Step(hist, SliderState)
               /\ UNCHANGED <<SliderVars, emergencyActive, personalInfo, network>>
  /\ UNCHANGED <<touching, VaultVars, newContact, faults>>

\* getEncryptionKey (called by decrypt): RNSecureKeyStore.get completes.  It
\* throws when there is no entry: a new key is generated and set is awaited.
LoadKey(i) ==
  /\ UNCHANGED events
  /\ calls[i].pc = "load_key"
  /\ IF keystore # 0
       THEN /\ Loaded(i, Decode(calls[i].blob, keystore), keystore)
            /\ UNCHANGED keysMade
       ELSE /\ keysMade < MaxKeys
            /\ keysMade' = keysMade + 1
            /\ calls' = [calls EXCEPT ![i].key = keysMade + 1, ![i].pc = "load_setkey"]
            /\ hist' = Step(hist, SliderState)
            /\ UNCHANGED <<SliderVars, emergencyActive, personalInfo, network>>
  /\ UNCHANGED <<touching, storage, keystore, newContact, faults>>

\* getEncryptionKey (called by decrypt): RNSecureKeyStore.set completes
LoadSetKey(i) ==
  /\ UNCHANGED events
  /\ calls[i].pc = "load_setkey"
  /\ keystore' = calls[i].key
  /\ Loaded(i, Decode(calls[i].blob, calls[i].key), calls[i].key)
  /\ UNCHANGED <<touching, storage, keysMade, newContact, faults>>

\* getEncryptionKey (called by encrypt): RNSecureKeyStore.get completes
SaveKey(i) ==
  /\ UNCHANGED events
  /\ calls[i].pc = "save_key"
  /\ IF keystore # 0
       THEN /\ calls' = [calls EXCEPT ![i].key = keystore, ![i].pc = "save_write"]
            /\ UNCHANGED keysMade
       ELSE /\ keysMade < MaxKeys
            /\ keysMade' = keysMade + 1
            /\ calls' = [calls EXCEPT ![i].key = keysMade + 1, ![i].pc = "save_setkey"]
  /\ hist' = Step(hist, SliderState)
  /\ UNCHANGED <<SliderVars, touching, emergencyActive, storage, keystore, OtherVars>>

\* getEncryptionKey (called by encrypt): RNSecureKeyStore.set completes;
\* saveData encrypts and awaits AsyncStorage.setItem
SaveSetKey(i) ==
  /\ UNCHANGED events
  /\ calls[i].pc = "save_setkey"
  /\ keystore' = calls[i].key
  /\ calls' = [calls EXCEPT ![i].pc = "save_write"]
  /\ hist' = Step(hist, SliderState)
  /\ UNCHANGED <<SliderVars, touching, emergencyActive, storage, keysMade, OtherVars>>

\* the state a call of this kind writes
\* (variant: newState of activateEmergency built with activated: false)
activateEmergencyInactive == [ActivatedState EXCEPT !.activated = FALSE]

activateEmergency == ActivatedState
\* (variant: deactivateEmergency keeps emergencyType in its newState)
deactivateEmergencyKeepsType == [DefaultState EXCEPT !.emergencyType = <<"general">>]

deactivateEmergency == DefaultState
NewStateOf(kind) ==
  IF kind = "activate" THEN activateEmergency ELSE deactivateEmergency

\* the data argument of a call's saveData
DataOf(c) == IF c.kind = "save" THEN c.pi ELSE NewStateOf(c.kind)

\* (variant: saveData hands jsonValue to the storage as it is)
saveDataPlain(c) == [k |-> 0, text |-> Stringify(DataOf(c))]

\* saveData: encryptedData, the second argument of AsyncStorage.setItem
saveData(c) == Encrypt(Stringify(DataOf(c)), c.key)

\* saveData: AsyncStorage.setItem completes; the handler vibrates and returns
SaveWrite(i) ==
  /\ UNCHANGED events
  /\ calls[i].pc = "save_write"
  /\ LET c == calls[i]
         k == SaveKeyOf(c.kind)
     IN /\ storage' = [storage EXCEPT ![k] = saveData(c)]
        /\ Returned(i, [Step(hist, SliderState) EXCEPT
                          !.saved = IF c.kind = "save" THEN c.pi ELSE @,
                          !.savedKs = IF c.kind = "save" THEN keystore ELSE @,
                          !.cycled = @ \/ (c.kind = "deactivate" /\ ~touching)])
  /\ UNCHANGED <<touching, keystore, keysMade, OtherVars>>

Next ==
  \/ Grant
  \/ \E dx \in DxInputs : Move(dx)
  \/ Release
  \/ Terminate
  \/ Frame
  \/ DeactivatePress
  \/ \E i \in 1..Len(calls) :
       \/ LoadGet(i)
       \/ LoadKey(i)
       \/ LoadSetKey(i)
       \/ SaveKey(i)
       \/ SaveSetKey(i)
       \/ SaveWrite(i)

Spec == Init /\ [][Next]_vars

(* ---------------------------------------------------------------------- *)
(* The vault under failures, with the information screen                   *)
(*                                                                         *)
(* A second specification of the same program: an awaited storage or       *)
(* keystore call may also fail, the user may open the information screen   *)
(* and edit the record, and the gesture is reduced to its outcome, the     *)
(* armed transition.                                                       *)
(* ---------------------------------------------------------------------- *)
\* an awaited platform call rejects
Fails ==
  /\ UNCHANGED events
  /\ faults < MaxFaults
  /\ faults' = faults + 1

\* saveData's catch block logs and throws the error on; the catch block of
\* activateEmergency, deactivateEmergency or the save effect logs it, and
\* the call returns
SaveFailed(i) == Returned(i, Step(hist, SliderState))

\* loadData: AsyncStorage.getItem rejects
GetItemFails(i) ==
  /\ Fails
  /\ calls[i].pc = "load_get"
  /\ Loaded(i, loadDataCatch, 0)
  /\ UNCHANGED <<touching, VaultVars, newContact>>

\* getEncryptionKey: RNSecureKeyStore.get rejects although the entry is
\* there; a new key is generated and set is awaited
KeyGetFails(i) ==
  /\ Fails
  /\ calls[i].pc \in {"load_key", "save_key"}
  /\ keystore # 0
  /\ keysMade < MaxKeys
  /\ keysMade' = keysMade + 1
  /\ calls' = [calls EXCEPT ![i].key = keysMade + 1,
                 ![i].pc = IF @ = "load_key" THEN "load_setkey" ELSE "save_setkey"]
  /\ hist' = Step(hist, SliderState)
  /\ UNCHANGED <<SliderVars, touching, emergencyActive, storage, keystore,
                 personalInfo, newContact, network>>

\* getEncryptionKey: RNSecureKeyStore.set rejects, and getEncryptionKey with it
KeySetFails(i) ==
  /\ Fails
  /\ calls[i].pc \in {"load_setkey", "save_setkey"}
  /\ IF calls[i].pc = "load_setkey"
       THEN Loaded(i, loadDataCatch, 0)
       ELSE SaveFailed(i) /\ UNCHANGED <<personalInfo, network>>
  /\ UNCHANGED <<touching, VaultVars, newContact>>

\* saveData: AsyncStorage.setItem rejects
SetItemFails(i) ==
  /\ Fails
  /\ calls[i].pc = "save_write"
  /\ SaveFailed(i)
  /\ UNCHANGED <<touching, VaultVars, personalInfo, newContact, network>>

\* what the user may type into the first name field
Names == {"", "Ana", RawQuote}

\* setPersonalInfo(info) and the save effect of the render that follows
SetPersonalInfo(info) ==
  /\ personalInfo' = info
  /\ IF ShouldSave(info)
       THEN /\ Len(calls) < MaxCalls
            /\ calls' = Append(calls, NewSave(info))
            /\ network' = network \o saveEffectRequests(info)
       ELSE UNCHANGED <<calls, network>>

\* navigation.navigate('PersonalInfo'): the screen mounts with the empty
\* record, for which the save effect does nothing, and calls loadPersonalInfo
OpenInfoScreen ==
  /\ UserInput
  /\ personalInfo = Null
  /\ ~touching
  /\ Len(calls) < MaxCalls
  /\ personalInfo' = EmptyInfo
  /\ newContact' = EmptyContact
  /\ calls' = Append(calls, NewCall("load"))
  /\ hist' = Step(hist, SliderState)
  /\ UNCHANGED <<SliderVars, touching, emergencyActive, VaultVars, network, faults>>

\* back to HomeScreen: the information screen unmounts
CloseInfoScreen ==
  /\ UserInput
  /\ personalInfo # Null
  /\ personalInfo' = Null
  /\ newContact' = Null
  /\ hist' = Step(hist, SliderState)
  /\ UNCHANGED <<SliderVars, touching, emergencyActive, calls, VaultVars, network, faults>>

\* onChangeText of the first name field
EditFirstName(text) ==
  /\ UserInput
  /\ personalInfo # Null
  /\ text # personalInfo.firstName
  /\ SetPersonalInfo([personalInfo EXCEPT !.firstName = text])
  /\ hist' = Step(hist, SliderState)
  /\ UNCHANGED <<SliderVars, touching, emergencyActive, VaultVars, newContact, faults>>

\* what the user may type into the nationality field
Nationalities == {"", "MX"}

\* onChangeText of the nationality field
EditNationality(text) ==
  /\ UserInput
  /\ personalInfo # Null
  /\ text # personalInfo.nationality
  /\ SetPersonalInfo([personalInfo EXCEPT !.nationality = text])
  /\ hist' = Step(hist, SliderState)
  /\ UNCHANGED <<SliderVars, touching, emergencyActive, VaultVars, newContact, faults>>

\* the outcome of a gesture held over the threshold: the countdown reaches
\* CountdownTarget, the listener arms and calls onEmergencyActivated
Armed ==
  /\ UserInput
  /\ personalInfo = Null
  /\ Len(calls) < MaxCalls
  /\ LET S == countdownListener([SliderState EXCEPT !.val = CountdownTarget],
                                CountdownTarget, TRUE, FALSE)
     IN /\ Commit(S)
        /\ calls' = calls \o Repeat(NewCall("activate"), S.fired)
        /\ hist' = Step(hist, S)
  /\ UNCHANGED <<touching, emergencyActive, VaultVars, OtherVars>>

Garbage == [k |-> 0, text |-> <<"garbage">>]

\* a fresh install; an install in use; an install whose blobs are bytes that
\* no encrypt call made; an install in emergency mode whose '@personal_info'
\* blob was encrypted under a key the keystore has lost
VaultInstalls ==
  {[keystore |-> 0, es |-> Null, pi |-> Null],
   [keystore |-> 1, es |-> Encrypt(Stringify(DefaultState), 1),
    pi |-> Encrypt(Stringify(SampleInfo), 1)],
   [keystore |-> 1, es |-> Garbage, pi |-> Garbage],
   [keystore |-> 1, es |-> Encrypt(Stringify(ActivatedState), 1),
    pi |-> Encrypt(Stringify(SampleInfo), LostKey)]}

VaultInit ==
  /\ isUnlocked = FALSE
  /\ isActivating = FALSE
  /\ translateX = 0
  /\ countdown = 0
  /\ anims = <<>>
  /\ tracked = 0
  /\ touching = FALSE
  /\ emergencyActive = FALSE
  /\ calls = <<NewCall("check")>>
  /\ \E inst \in VaultInstalls :
       /\ keystore = inst.keystore
       /\ keysMade = inst.keystore
       /\ storage = [k \in VaultKeys |->
                       IF k = EMERGENCY_STATE_KEY THEN inst.es ELSE inst.pi]
  /\ events = 0
  /\ personalInfo = Null
  /\ newContact = Null
  /\ network = <<>>
  /\ faults = 0
  /\ hist = HistInit

VaultNext ==
  \/ Armed
  \/ DeactivatePress
  \/ OpenInfoScreen
  \/ CloseInfoScreen
  \/ \E text \in Names : EditFirstName(text)
  \/ Frame
  \/ \E i \in 1..Len(calls) :
       \/ LoadGet(i)
       \/ LoadKey(i)
       \/ LoadSetKey(i)
       \/ SaveKey(i)
       \/ SaveSetKey(i)
       \/ SaveWrite(i)
       \/ GetItemFails(i)
       \/ KeyGetFails(i)
       \/ KeySetFails(i)
       \/ SetItemFails(i)

VaultSpec == VaultInit /\ [][VaultNext]_vars

(* ---------------------------------------------------------------------- *)
(* Process kill: the operating system kills the app at any point and the   *)
(* user starts it again.  What lives in memory (component state, animated  *)
(* values, calls in flight) is gone; AsyncStorage and the keystore are     *)
(* kept.  HomeScreen mounts and calls checkEmergencyStatus.                *)
(* ---------------------------------------------------------------------- *)
Kill ==
  /\ UserInput
  /\ isUnlocked' = FALSE
  /\ isActivating' = FALSE
  /\ translateX' = 0
  /\ countdown' = 0
  /\ anims' = <<>>
  /\ tracked' = 0
  /\ touching' = FALSE
  /\ emergencyActive' = FALSE
  /\ calls' = <<NewCall("check")>>
  /\ personalInfo' = Null
  /\ newContact' = Null
  /\ hist' = [HistInit EXCEPT !.killed = TRUE]
  /\ UNCHANGED <<VaultVars, network, faults>>

RestartNext == Next \/ Kill

RestartSpec == Init /\ [][RestartNext]_vars

(* ---------------------------------------------------------------------- *)
(* The information screen with its emergency contacts                      *)
(* ---------------------------------------------------------------------- *)
\* Number.prototype.toString of a clock reading: its decimal digits
Digits == <<"1", "2", "3", "4", "5", "6", "7", "8", "9">>
toString(n) == Digits[n]

\* what the user may type into the name and phone fields of the new-contact
\* form
ContactNames == {"", "Lee"}
ContactPhones == {"", "555"}

\* addEmergencyContact: an alert and nothing else when name or phone is
\* missing; else the contact is appended with id Date.now().toString() and
\* the form is cleared.  now is the reading of the wall clock: two calls can
\* read the same value.  set tells whether setPersonalInfo is called.
\* (variant: only the name is required)
addEmergencyContactNameOnly(info, form, now) ==
  IF form.name = ""
    THEN [set |-> FALSE, info |-> info, form |-> form]
    ELSE [set |-> TRUE,
          info |-> [info EXCEPT !.emergencyContacts =
                      Append(@, [id |-> toString(now), name |-> form.name,
                                 phone |-> form.phone])],
          form |-> EmptyContact]

addEmergencyContact(info, form, now) ==
  IF form.name = "" \/ form.phone = ""
    THEN [set |-> FALSE, info |-> info, form |-> form]
    ELSE [set |-> TRUE,
          info |-> [info EXCEPT !.emergencyContacts =
                      Append(@, [id |-> toString(now), name |-> form.name,
                                 phone |-> form.phone])],
          form |-> EmptyContact]

\* removeEmergencyContact(id): filter(contact => contact.id !== id)
removeEmergencyContact(info, id) ==
  [info EXCEPT !.emergencyContacts = SelectSeq(@, LAMBDA c : c.id # id)]

ContactIds(info) ==
  {info.emergencyContacts[n].id : n \in 1..Len(info.emergencyContacts)}

\* onChangeText of the name and phone fields of the new-contact form
EditContactName(text) ==
  /\ personalInfo # Null
  /\ text # newContact.name
  /\ newContact' = [newContact EXCEPT !.name = text]
  /\ hist' = Step(hist, SliderState)
  /\ UNCHANGED <<SliderVars, touching, emergencyActive, calls, VaultVars, events,
                 personalInfo, network, faults>>

EditContactPhone(text) ==
  /\ personalInfo # Null
  /\ text # newContact.phone
  /\ newContact' = [newContact EXCEPT !.phone = text]
  /\ hist' = Step(hist, SliderState)
  /\ UNCHANGED <<SliderVars, touching, emergencyActive, calls, VaultVars, events,
                 personalInfo, network, faults>>

\* the Add control of the new-contact form
AddEmergencyContact(now) ==
  /\ UserInput
  /\ personalInfo # Null
  /\ Len(personalInfo.emergencyContacts) < MaxContacts
  /\ LET r == addEmergencyContact(personalInfo, newContact, now)
     IN /\ IF r.set THEN SetPersonalInfo(r.info)
                    ELSE UNCHANGED <<personalInfo, calls, network>>
        /\ newContact' = r.form
  /\ hist' = Step(hist, SliderState)
  /\ UNCHANGED <<SliderVars, touching, emergencyActive, VaultVars, faults>>

\* the Remove control of one of the contacts shown
RemoveEmergencyContact(id) ==
  /\ UserInput
  /\ personalInfo # Null
  /\ id \in ContactIds(personalInfo)
  /\ SetPersonalInfo(removeEmergencyContact(personalInfo, id))
  /\ hist' = Step(hist, SliderState)
  /\ UNCHANGED <<SliderVars, touching, emergencyActive, VaultVars, newContact, faults>>

InfoNext ==
  \/ OpenInfoScreen
  \/ CloseInfoScreen
  \/ \E text \in Names : EditFirstName(text)
  \/ \E text \in Nationalities : EditNationality(text)
  \/ \E text \in ContactNames : EditContactName(text)
  \/ \E text \in ContactPhones : EditContactPhone(text)
  \/ \E now \in 1..MaxClock : AddEmergencyContact(now)
  \/ \E id \in {toString(n) : n \in 1..Len(Digits)} : RemoveEmergencyContact(id)
  \/ \E i \in 1..Len(calls) :
       \/ LoadGet(i)
       \/ LoadKey(i)
       \/ LoadSetKey(i)
       \/ SaveKey(i)
       \/ SaveSetKey(i)
       \/ SaveWrite(i)

InfoSpec == Init /\ [][InfoNext]_vars

(* ---------------------------------------------------------------------- *)
(* Claims                                                                  *)
(* ---------------------------------------------------------------------- *)
ActivationsInFlight == {i \in 1..Len(calls) : calls[i].kind = "activate"}

\* a step in which call i completes: its last awaited call returns
Completes(i) == Len(calls') < Len(calls) /\ calls' = Remaining(i)

\* C1: a gesture that has stayed over the threshold, finger down, for
\* CountdownDuration since it crossed it (the slider not having been disabled
\* meanwhile) has armed, and has armed exactly once.
C1_HeldGestureArmsOnce ==
  (touching /\ hist.held >= CountdownDuration /\ ~hist.gDisabled)
    => hist.gArms = 1

\* C2: a gesture that crossed the threshold and was pulled back below it
\* before CountdownDuration had passed does not arm while the thumb stays
\* below the threshold.
C2_RetractedNeverArms ==
  (touching /\ hist.retracted) => hist.gArms = 0

\* C3: an activateEmergency call that found no PersonalInformation (nothing
\* stored, or a blob that loads as null) ends with EmergencyState.activated
\* = true on disk and the host showing emergency mode.
C3_ActivationWithoutInfo ==
  [][\A i \in 1..Len(calls) :
       (calls[i].kind = "activate" /\ calls[i].pi = Null /\ Completes(i))
         => (IsActivated(PersistedState') /\ emergencyActive')]_vars

C3_Witness ==
  /\ emergencyActive
  /\ IsActivated(PersistedState)
  /\ storage[PERSONAL_INFO_KEY] = Null
  /\ calls = <<>>

\* C4: once the record on disk has activated = true, it keeps it until a
\* deactivateEmergency call writes: no other step of the orchestrator
\* reverts it.
C4_OnlyDeactivationReverts ==
  [][(IsActivated(PersistedState) /\ ~IsActivated(PersistedState'))
       => \E i \in 1..Len(calls) :
            calls[i].kind = "deactivate" /\ calls[i].pc = "save_write"
            /\ Completes(i)]_vars

C4_Witness ==
  /\ IsActivated(PersistedState)
  /\ storage[PERSONAL_INFO_KEY] = Null
  /\ \E i \in 1..Len(calls) : calls[i].kind = "deactivate"

\* C5: when a deactivation completes, the record on disk is the default
\* state and the gesture machine is idle: not armed, no countdown running,
\* the slider enabled.
C5_DeactivationResetsFully ==
  [][\A i \in 1..Len(calls) :
       (calls[i].kind = "deactivate" /\ Completes(i))
         => /\ PersistedState' = DefaultState
            /\ ~emergencyActive'
            /\ ~isUnlocked'
            /\ ~isActivating']_vars

\* C6: a countdown that was running when the slider was disabled while
\* arming never produces an armed transition.
C6_DisabledDiscardsCountdown == ~hist.oldArm

\* C7: an armed transition needs the thumb to have been over the threshold
\* for a full CountdownDuration since it last crossed it.
C7_FreshCountdownEachEntry == ~hist.earlyArm

\* C8: a gesture is accepted only while the slider is enabled and not armed.
C8_GestureOnlyWhenEnabled ==
  [][(touching' /\ ~touching) => (~emergencyActive /\ ~isUnlocked)]_vars

\* C9: no second activation starts while one is still in flight.
C9_OneActivationAtATime == Cardinality(ActivationsInFlight) <= 1

\* C10: a step that ends a countdown animation before it has finished
\* leaves the machine not arming and does not arm it.
C10_InterruptedIsCancelled ==
  [][hist'.cut => (~isActivating' /\ (isUnlocked' => isUnlocked))]_vars

C10_Witness == hist.cut /\ touching /\ ~isActivating

\* an EmergencyState with activated = false has the other fields null/false
InactiveIsBlank(st) ==
  ~st.activated =>
    (st.activatedAt = NoString /\ st.emergencyType = NoString /\ ~st.sentNotifications)

\* C11: the EmergencyState on disk under '@emergency_state', and every state
\* getEmergencyState returns, has activatedAt = null, emergencyType = null
\* and sentNotifications = false whenever its activated is false.
C11_InactiveStateIsBlank ==
  /\ PersistedState # Null => InactiveIsBlank(PersistedState)
  /\ hist.ret # Nothing => InactiveIsBlank(hist.ret)

\* a deactivation has written over the activated record of an install
C11_Witness ==
  /\ PersistedState # Null
  /\ ~PersistedState.activated
  /\ storage[PERSONAL_INFO_KEY] # Null
  /\ storage[PERSONAL_INFO_KEY].k = LostKey

\* the loadData call that ended in the last step had nothing to decode: no
\* blob read (none stored, or the read failed), no key, or a blob that is not
\* the encryption of anything under the key
NothingDecoded == hist.blob = Null \/ hist.key = 0 \/ hist.blob.k # hist.key

\* C12: getEmergencyState never throws, and returns the default state when
\* the record is missing, does not decode or the storage read fails.
C12_StateDefaultsOnFailure ==
  hist.ret # Nothing =>
    /\ hist.ret # Thrown
    /\ NothingDecoded => hist.ret = DefaultState

\* the read of an activated record failed, and the default came back
C12_Witness ==
  /\ hist.ret = DefaultState
  /\ faults > 0
  /\ IsActivated(PersistedState)

\* C13: an activateEmergency call ends with the activation record on disk
\* although a storage or keystore call failed on the way (failures within
\* MaxFaults), and the host never shows emergency mode for an activation
\* whose record is not on disk.
C13_ActivationWriteRetried ==
  [][\A i \in 1..Len(calls) :
       (calls[i].kind = "activate" /\ Completes(i))
         => (IsActivated(PersistedState') /\ (emergencyActive' => IsActivated(PersistedState')))]_vars

\* C14: while an activateEmergency call is still reading PersonalInformation
\* (and no deactivation has completed since it started), its activation
\* record is already on disk.
C14_RecordWrittenBeforeRead ==
  \A i \in 1..Len(calls) :
    (calls[i].kind = "activate" /\ ~calls[i].overtaken
     /\ calls[i].pc \in {"load_get", "load_key", "load_setkey"})
      => IsActivated(PersistedState)

\* C15: an activateEmergency call that ends has handed the api client one
\* request carrying the PersonalInformation it loaded when that was not
\* null, and has handed it none when it was null.
C15_SubmissionIffInfoPresent ==
  [][\A i \in 1..Len(calls) :
       (calls[i].kind = "activate" /\ Completes(i))
         => IF calls[i].pi = Null
              THEN network' = network
              ELSE \E n \in 1..Len(network') : network'[n].payload = calls[i].pi]_vars

\* C16: the default state a completed deactivation wrote is not undone by
\* an activation that was in flight when the deactivation completed.
C16_DeactivationNotUndone ==
  [][\A i \in 1..Len(calls) :
       (calls[i].kind = "activate" /\ calls[i].overtaken /\ Completes(i))
         => ~IsActivated(PersistedState')]_vars

\* loadPersonalInfo's loadData call i ends in this step
LoadEnds(i) ==
  /\ calls[i].kind = "load"
  /\ hist'.loaded # Nothing
  /\ Len(calls') >= Len(calls) - 1
  /\ SubSeq(calls', 1, Len(calls) - 1) = RemoveAt(calls, i)

\* C17: a loadData('@personal_info') that started after the last saveData
\* of a PersonalInformation value v had completed, with the keystore entry
\* the same from that completion to the end of the load and no platform call
\* having failed, returns v.
C17_VaultRoundTrip ==
  [][\A i \in 1..Len(calls) :
       (/\ LoadEnds(i)
        /\ ~calls[i].overtaken
        /\ hist.saved # Null
        /\ keystore = hist.savedKs
        /\ keystore' = keystore
        /\ faults' = 0)
         => hist'.loaded = hist.saved]_vars

\* C18: no loadData call that has ended (for a status check, an activation
\* or the information screen) has thrown, and one that ended with nothing
\* stored, or with a blob that did not decrypt or parse, returned null.
C18_LoadDataNeverThrows ==
  /\ hist.loaded # Thrown
  /\ (hist.loaded # Nothing /\ NothingDecoded) => hist.loaded = Null

C18_Witness ==
  /\ hist.loaded = Null
  /\ hist.blob # Null
  /\ hist.key # 0
  /\ hist.blob = Garbage \/ hist.blob.k # hist.key

\* C19: every value a step puts under a vault key is a blob that encrypt
\* made under a key getEncryptionKey handed out, never plaintext JSON.
C19_OnlyCiphertextStored ==
  [][\A k \in VaultKeys :
       storage'[k] # storage[k]
         => (storage'[k] # Null /\ storage'[k].k \in 1..keysMade')]_vars

C19_Witness ==
  /\ hist.saved # Null
  /\ storage[PERSONAL_INFO_KEY] = Encrypt(Stringify(hist.saved), keystore)
  /\ IsActivated(PersistedState)

\* C20: every request handed to the network was made by an activation: no
\* edit, load, status check or deactivation has made one.
C20_InfoLeavesOnlyByActivation ==
  \A n \in 1..Len(network) : network[n].by = "activate"

C20_Witness ==
  /\ hist.saved # Null
  /\ hist.saved.firstName = RawQuote
  /\ hist.loaded = hist.saved
  /\ network = <<>>

\* C21: once the keystore holds a key and while no platform call has
\* failed, no step stores another key or generates one: every
\* getEncryptionKey call returns the key first stored, and the install has
\* one key.  (Runs with two activations in flight are left aside.)
C21_KeyProviderIdempotent ==
  [][(faults' = 0 /\ keystore # 0 /\ Cardinality(ActivationsInFlight) <= 1)
       => (keystore' = keystore /\ keysMade' = keysMade)]_vars

\* a step taken by call i that leaves it in flight
Proceeds(i) ==
  /\ Len(calls') = Len(calls)
  /\ \A j \in 1..Len(calls) : j # i => calls'[j] = calls[j]
  /\ calls'[i] # calls[i]
  /\ calls'[i].kind = calls[i].kind

\* C22: a getEncryptionKey call whose keystore read failed holds a key no
\* earlier call was given; when its keystore write completes the keystore
\* holds that key and the caller goes on with it; a loadData call that
\* decrypted a blob with another key than the blob's gave null.
C22_ReadFailureMakesFreshKey ==
  [][/\ \A i \in 1..Len(calls) :
          /\ (calls[i].pc \in {"load_key", "save_key"} /\ Proceeds(i)
              /\ calls'[i].pc \in {"load_setkey", "save_setkey"})
               => (calls'[i].key = keysMade' /\ keysMade' = keysMade + 1
                   /\ calls'[i].key # keystore)
          /\ (calls[i].pc = "save_setkey" /\ Proceeds(i))
               => (keystore' = calls[i].key /\ calls'[i].key = calls[i].key
                   /\ calls'[i].pc = "save_write")
          /\ (calls[i].pc = "load_setkey" /\ faults' = faults
              /\ (Proceeds(i) \/ Completes(i)))
               => (keystore' = calls[i].key /\ hist'.key = calls[i].key)
     /\ (hist'.loaded # Nothing /\ hist'.blob # Null /\ hist'.key # 0
         /\ hist'.blob.k # hist'.key)
          => hist'.loaded = Null]_vars

C22_Witness ==
  /\ faults = 1
  /\ keystore = 2
  /\ hist.loaded = Null
  /\ hist.blob = Encrypt(Stringify(SampleInfo), 1)
  /\ hist.key = 2

\* call i of the information screen does its AsyncStorage.getItem in this step
LoadReads(i) ==
  /\ calls[i].kind = "load"
  /\ calls[i].pc = "load_get"
  /\ faults' = faults
  /\ Proceeds(i) \/ LoadEnds(i)

\* C23: a loadData('@personal_info') issued after a saveData on that key
\* does not read the storage before that saveData has written: when the load
\* reads and no saveData on the key has completed yet, no saveData issued
\* before the load is still in flight.
C23_SaveBeforeLoadInProgramOrder ==
  [][\A i \in 1..Len(calls) :
       (LoadReads(i) /\ hist.saved = Null)
         => \A j \in 1..(i - 1) : calls[j].kind # "save"]_vars

\* C25: the blob under '@personal_info' changes only in the step in which a
\* saveData call of the information screen writes it: no getEmergencyState,
\* activateEmergency or deactivateEmergency call, ending well or failing,
\* changes or removes it.
C25_InfoNeverChangedByCore ==
  [][storage'[PERSONAL_INFO_KEY] # storage[PERSONAL_INFO_KEY]
       => \E i \in 1..Len(calls) :
            /\ calls[i].kind = "save"
            /\ calls[i].pc = "save_write"
            /\ Completes(i)
            /\ storage'[PERSONAL_INFO_KEY] = saveData(calls[i])]_vars

C25_Witness ==
  /\ storage[PERSONAL_INFO_KEY] = Encrypt(Stringify(SampleInfo), 1)
  /\ PersistedState = DefaultState
  /\ storage[EMERGENCY_STATE_KEY].k = 2
  /\ faults = 1
  /\ ~emergencyActive
  /\ calls = <<>>

\* C27: while no status check, activation or deactivation is in flight,
\* HomeScreen's emergencyActive equals activated of the record on disk.
C27_BannerMatchesPersistedState ==
  (\A i \in 1..Len(calls) : calls[i].kind \notin {"check", "activate", "deactivate"})
    => emergencyActive = IsActivated(PersistedState)

\* C28: when no call is in flight and no platform call has failed, the
\* blob that the saveData calls of the information screen left under
\* '@personal_info' is encrypted under the key the keystore holds.
C28_StoredBlobsUnderKeystoreKey ==
  (calls = <<>> /\ faults = 0 /\ hist.saved # Null)
    => storage[PERSONAL_INFO_KEY].k = keystore

\* C29: while the information screen shows a record typed into it (one that
\* its save effect saves), no saveData call is in flight and no platform call
\* has failed, the blob under '@personal_info' holds that record.
C29_LatestEditIsStored ==
  (/\ personalInfo # Null
   /\ ShouldSave(personalInfo)
   /\ personalInfo.emergencyContacts = <<>>
   /\ faults = 0
   /\ \A i \in 1..Len(calls) : calls[i].kind # "save")
    => /\ storage[PERSONAL_INFO_KEY] # Null
       /\ Parse(storage[PERSONAL_INFO_KEY].text) = personalInfo

\* C24: the contacts of the record on the information screen have pairwise
\* distinct ids.
C24_ContactIdsDistinct ==
  personalInfo # Null
    => \A a, b \in 1..Len(personalInfo.emergencyContacts) :
         a # b => personalInfo.emergencyContacts[a].id # personalInfo.emergencyContacts[b].id

\* the app as a start leaves it: the mount-time check in flight, nothing
\* written since it read the record
JustStarted ==
  /\ Len(calls) = 1
  /\ calls[1].kind = "check"
  /\ (calls[1].pc = "load_get" \/ calls[1].blob = storage[EMERGENCY_STATE_KEY])
  /\ ~emergencyActive
  /\ ~isUnlocked
  /\ ~isActivating
  /\ ~touching
  /\ anims = <<>>
  /\ countdown = 0
  /\ translateX = 0

\* C26: a kill changes nothing on disk and leaves the app as a start leaves
\* it; the record on disk becomes activated only when an activateEmergency
\* call writes, and such a call starts only in a step in which the countdown
\* listener arms the slider; when the mount-time check of a restarted app
\* resolves, the home screen shows emergency mode (banner, Deactivate control,
\* disabled passed to the slider) exactly if the record on disk is activated,
\* and the gesture machine is idle.
C26_KillLeavesNoAmbiguity ==
  [][/\ Kill => (storage' = storage /\ keystore' = keystore /\ JustStarted')
     /\ (IsActivated(PersistedState') /\ ~IsActivated(PersistedState))
          => \E i \in 1..Len(calls) :
               calls[i].kind = "activate" /\ calls[i].pc = "save_write" /\ Completes(i)
     /\ Cardinality(ActivationsInFlight') > Cardinality(ActivationsInFlight)
          => (isUnlocked' /\ hist'.gArms >= 1)
     /\ (hist.killed /\ JustStarted /\ Completes(1))
          => /\ emergencyActive' = IsActivated(PersistedState)
             /\ ~isUnlocked'
             /\ ~isActivating'
             /\ translateX' = 0]_vars

\* C30: an armed transition (the listener sets isUnlocked and calls
\* onEmergencyActivated) happens only with the finger down; after a gesture
\* was released or terminated while arming, the next gesture that crosses
\* the threshold arms only when its thumb has stayed over it for
\* CountdownDuration.
C30_NoArmWithFingerUp ==
  [][((isUnlocked' /\ ~isUnlocked)
        \/ Cardinality(ActivationsInFlight') > Cardinality(ActivationsInFlight))
       => /\ touching
          /\ hist.dropped => hist'.held = CountdownDuration]_vars

\* the saveData calls of the information screen that have not returned
SavesInFlight(cs) == {i \in 1..Len(cs) : cs[i].kind = "save"}

C33_AddContactValidates ==
  [][\A now \in 1..MaxClock :
       AddEmergencyContact(now) =>
         IF newContact.name = "" \/ newContact.phone = ""
           THEN /\ personalInfo' = personalInfo
                /\ newContact' = newContact
                /\ calls' = calls
                /\ storage' = storage
           ELSE LET old == personalInfo.emergencyContacts
                    new == personalInfo'.emergencyContacts
                IN /\ Len(new) = Len(old) + 1
                   /\ SubSeq(new, 1, Len(old)) = old
                   /\ new[Len(new)].name = newContact.name
                   /\ new[Len(new)].phone = newContact.phone
                   /\ newContact' = EmptyContact
                   /\ personalInfo'.firstName = personalInfo.firstName
                   /\ personalInfo'.nationality = personalInfo.nationality]_vars

C33_Witness ==
  /\ personalInfo # Null
  /\ personalInfo.emergencyContacts =
       SampleInfo.emergencyContacts \o <<[id |-> "2", name |-> "Lee", phone |-> "555"]>>
  /\ personalInfo.firstName = "Jane"
  /\ newContact = EmptyContact

\* C34: pressing Remove on a contact of the record removes exactly one
\* contact, one with the id passed, and leaves the other contacts, their
\* order and the identity fields unchanged.
C34_RemoveExactlyOne ==
  [][\A id \in {toString(n) : n \in 1..Len(Digits)} :
       RemoveEmergencyContact(id) =>
         LET old == personalInfo.emergencyContacts
             new == personalInfo'.emergencyContacts
         IN /\ \E n \in 1..Len(old) :
                 /\ old[n].id = id
                 /\ new = SubSeq(old, 1, n - 1) \o SubSeq(old, n + 1, Len(old))
            /\ personalInfo'.firstName = personalInfo.firstName
            /\ personalInfo'.nationality = personalInfo.nationality]_vars

\* C32: once a deactivation has completed (no finger down), with emergency
\* mode off, no animation running and no check or activation in flight, the
\* slider is idle with thumb and countdown at zero; and a gesture made after
\* it that has stayed over the threshold for CountdownDuration, emergency
\* mode off and the slider not disabled meanwhile, has armed.
C32_CycleRepeatable ==
  /\ (hist.cycled /\ ~emergencyActive /\ ~touching /\ anims = <<>>
        /\ \A i \in 1..Len(calls) : calls[i].kind \notin {"check", "activate"})
       => (~isUnlocked /\ ~isActivating /\ countdown = 0 /\ translateX = 0)
  /\ (hist.cycled /\ ~emergencyActive /\ touching /\ ~hist.gDisabled
        /\ hist.held >= CountdownDuration)
       => hist.gArms >= 1

====
